---- MODULE Spec2Model ----
(***************************************************************************)
(* Gameplay core of the bird-flock runner: the zustand session store       *)
(* (src/store.ts), the obstacle manager's frame callback and the flock's   *)
(* rescue-gesture effect (src/components/GameScene.tsx), the hand tracker  *)
(* (src/components/HandController.tsx) and the menu buttons (App).         *)
(*                                                                         *)
(* Units.  Times are integer milliseconds.  birdX and birdY are stored in  *)
(* twentieths (the source's [-1, 1] is -20 .. 20).  World x, y and lengths *)
(* are in fifths of a world unit, so that every radius of the source       *)
(* (0.8, 1.0, 4.0, 5.0) is an integer; the depth z is in whole units.      *)
(***************************************************************************)
EXTENDS Integers, Sequences, FiniteSets, TLC

VARIABLES
    store,              \* the zustand state object (src/store.ts:5-20)
    now,                \* the wall clock, Date.now()
    lasers,             \* ObstacleManager's useState list of live obstacles
    lastSpawnTime,      \* ObstacleManager's ref
    nextSpawnInterval,  \* ObstacleManager's ref
    nextId,             \* number of obstacles created so far (ids are fresh)
    effectDeps,         \* <<dangerStatus, isFist>> seen by Flock's last effect run
    last,               \* history: the last operation and its arguments
    before,             \* history: the store before the last direct call of a store action
    fistAtWarning,      \* history: isFist at the moment the latest WARNING began
    idAtReset,          \* history: number of obstacles created before the latest reset
    delivered,          \* history: <<x, y, isFist>> of the latest report of the hand tracker
    warningEndedAt,     \* history: when the latest WARNING ended; 0 before the first
                        \* end, after a reset and while a WARNING is running
    birdsAtWarning,     \* history: birdCount when the running WARNING began; birdCount
                        \* itself while no WARNING is running
    tickedInWarning,    \* history: the frame time ticked off since the running WARNING
                        \* began; 0 while no WARNING is running
    warnedBy,           \* history: ids of the live obstacles that began a WARNING
    retired             \* history: number of obstacles retired since the latest reset

vars == <<store, now, lasers, lastSpawnTime, nextSpawnInterval, nextId, effectDeps,
          last, before, fistAtWarning, idAtReset, delivered, warningEndedAt,
          birdsAtWarning, tickedInWarning, warnedBy, retired>>

-----------------------------------------------------------------------------
(* Program constants *)

INITIAL_BIRDS == 16
PHASE2_SCORE == 300
WIN_SCORE == 800
COOLDOWN_MS == 2000
RESCUE_MS == 3000
INITIAL_SPAWN_INTERVAL == 1000
LASER_SPAWN_INTERVAL_MIN_P1 == 300
LASER_SPAWN_INTERVAL_MAX_P1 == 600
LASER_SPAWN_INTERVAL_MIN_P2 == 400
LASER_SPAWN_INTERVAL_MAX_P2 == 700
LASER_SPEED == 60
SPAWN_Z == -200
RETIRE_Z == 20
BAND_Z == 3
SCORE_PER_LASER == 10

GameStatus == {"MENU", "PLAYING", "GAME_OVER", "GAME_WON"}
DangerStatus == {"SAFE", "WARNING"}
GamePhase == {"CORRIDOR", "HIGH_ALTITUDE"}

Max(a, b) == IF a >= b THEN a ELSE b
Min(a, b) == IF a <= b THEN a ELSE b

-----------------------------------------------------------------------------
(* Faulty variants of the store's actions.  A property that decides the    *)
(* behaviour of an action must fail when the action is replaced by its     *)
(* variant.                                                                *)

\* the phase changes already at the threshold score
incrementScore_phaseAtThreshold(s, amount) ==
    LET newScore == s.score + amount
    IN  [s EXCEPT !.score = newScore,
                  !.phase = IF newScore >= PHASE2_SCORE /\ s.phase = "CORRIDOR"
                            THEN "HIGH_ALTITUDE" ELSE s.phase,
                  !.status = IF newScore >= WIN_SCORE /\ s.status # "GAME_WON"
                             THEN "GAME_WON" ELSE s.status]

\* the game is won only above the winning score
incrementScore_winAboveThreshold(s, amount) ==
    LET newScore == s.score + amount
    IN  [s EXCEPT !.score = newScore,
                  !.phase = IF newScore > PHASE2_SCORE /\ s.phase = "CORRIDOR"
                            THEN "HIGH_ALTITUDE" ELSE s.phase,
                  !.status = IF newScore > WIN_SCORE /\ s.status # "GAME_WON"
                             THEN "GAME_WON" ELSE s.status]

\* the game is won at the score of the second phase
incrementScore_winAtPhaseScore(s, amount) ==
    LET newScore == s.score + amount
    IN  [s EXCEPT !.score = newScore,
                  !.phase = IF newScore > PHASE2_SCORE /\ s.phase = "CORRIDOR"
                            THEN "HIGH_ALTITUDE" ELSE s.phase,
                  !.status = IF newScore >= PHASE2_SCORE /\ s.status # "GAME_WON"
                             THEN "GAME_WON" ELSE s.status]

\* the amount is credited twice
incrementScore_twice(s, amount) ==
    LET newScore == s.score + amount + amount
    IN  [s EXCEPT !.score = newScore,
                  !.phase = IF newScore > PHASE2_SCORE /\ s.phase = "CORRIDOR"
                            THEN "HIGH_ALTITUDE" ELSE s.phase,
                  !.status = IF newScore >= WIN_SCORE /\ s.status # "GAME_WON"
                             THEN "GAME_WON" ELSE s.status]

\* scoring costs a bird
incrementScore_costingBird(s, amount) ==
    LET newScore == s.score + amount
    IN  [s EXCEPT !.score = newScore,
                  !.birdCount = Max(0, s.birdCount - 1),
                  !.phase = IF newScore > PHASE2_SCORE /\ s.phase = "CORRIDOR"
                            THEN "HIGH_ALTITUDE" ELSE s.phase,
                  !.status = IF newScore >= WIN_SCORE /\ s.status # "GAME_WON"
                             THEN "GAME_WON" ELSE s.status]

\* the cooldown still holds at exactly COOLDOWN_MS
triggerDanger_inclusiveCooldown(s, t) ==
    IF s.dangerStatus = "WARNING" \/ t - s.lastHitTime <= COOLDOWN_MS
    THEN s
    ELSE [s EXCEPT !.dangerStatus = "WARNING", !.dangerTimer = RESCUE_MS,
                   !.lastHitTime = t]

\* a successful rescue loses a bird too
resolveDanger_ignoringSuccess(s, success, t) ==
    IF s.dangerStatus # "WARNING"
    THEN s
    ELSE LET newCount == Max(0, s.birdCount - 1)
         IN  [s EXCEPT !.birdCount = newCount,
                       !.status = IF newCount <= 0 THEN "GAME_OVER" ELSE s.status,
                       !.dangerStatus = "SAFE",
                       !.lastHitTime = t]

\* a failed rescue is charged whether or not a warning is running
resolveDanger_unguarded(s, success, t) ==
    LET newCount == IF ~success THEN Max(0, s.birdCount - 1) ELSE s.birdCount
        newStatus == IF newCount <= 0 THEN "GAME_OVER" ELSE s.status
    IN  [s EXCEPT !.birdCount = newCount,
                  !.status = newStatus,
                  !.dangerStatus = "SAFE",
                  !.lastHitTime = t]

\* a rescue also clears the timer
resolveDanger_zeroingTimer(s, success, t) ==
    IF s.dangerStatus # "WARNING"
    THEN s
    ELSE LET newCount == IF ~success THEN Max(0, s.birdCount - 1) ELSE s.birdCount
             newStatus == IF newCount <= 0 THEN "GAME_OVER" ELSE s.status
         IN  [s EXCEPT !.birdCount = newCount,
                       !.status = newStatus,
                       !.dangerStatus = "SAFE",
                       !.dangerTimer = 0,
                       !.lastHitTime = t]

\* every tick of a running warning restarts the cooldown
tickDangerTimer_touchingHitTime(s, deltaMs, t) ==
    IF s.dangerStatus # "WARNING"
    THEN s
    ELSE LET newTime == s.dangerTimer - deltaMs
         IN  IF newTime <= 0
             THEN LET newCount == Max(0, s.birdCount - 1)
                  IN  [s EXCEPT !.dangerTimer = 0,
                                !.dangerStatus = "SAFE",
                                !.birdCount = newCount,
                                !.status = IF newCount <= 0 THEN "GAME_OVER" ELSE s.status,
                                !.lastHitTime = t]
             ELSE [s EXCEPT !.dangerTimer = newTime, !.lastHitTime = t]

\* the end of a warning leaves the time of the hit as it was
resolveDanger_keepingHitTime(s, success, t) ==
    IF s.dangerStatus # "WARNING"
    THEN s
    ELSE LET newCount == IF ~success THEN Max(0, s.birdCount - 1) ELSE s.birdCount
             newStatus == IF newCount <= 0 THEN "GAME_OVER" ELSE s.status
         IN  [s EXCEPT !.birdCount = newCount,
                       !.status = newStatus,
                       !.dangerStatus = "SAFE"]

\* an expired timer costs two birds
tickDangerTimer_costingTwo(s, deltaMs, t) ==
    IF s.dangerStatus # "WARNING"
    THEN s
    ELSE LET newTime == s.dangerTimer - deltaMs
         IN  IF newTime <= 0
             THEN LET newCount == Max(0, s.birdCount - 2)
                  IN  [s EXCEPT !.dangerTimer = 0,
                                !.dangerStatus = "SAFE",
                                !.birdCount = newCount,
                                !.status = IF newCount <= 0 THEN "GAME_OVER" ELSE s.status,
                                !.lastHitTime = t]
             ELSE [s EXCEPT !.dangerTimer = newTime]

\* the timer runs at half the rate of the clock
tickDangerTimer_halfRate(s, deltaMs, t) ==
    IF s.dangerStatus # "WARNING"
    THEN s
    ELSE LET newTime == s.dangerTimer - deltaMs \div 2
         IN  IF newTime <= 0
             THEN LET newCount == Max(0, s.birdCount - 1)
                  IN  [s EXCEPT !.dangerTimer = 0,
                                !.dangerStatus = "SAFE",
                                !.birdCount = newCount,
                                !.status = IF newCount <= 0 THEN "GAME_OVER" ELSE s.status,
                                !.lastHitTime = t]
             ELSE [s EXCEPT !.dangerTimer = newTime]

\* the timer expires only below zero
tickDangerTimer_strictExpiry(s, deltaMs, t) ==
    IF s.dangerStatus # "WARNING"
    THEN s
    ELSE LET newTime == s.dangerTimer - deltaMs
         IN  IF newTime < 0
             THEN LET newCount == Max(0, s.birdCount - 1)
                  IN  [s EXCEPT !.dangerTimer = 0,
                                !.dangerStatus = "SAFE",
                                !.birdCount = newCount,
                                !.status = IF newCount <= 0 THEN "GAME_OVER" ELSE s.status,
                                !.lastHitTime = t]
             ELSE [s EXCEPT !.dangerTimer = newTime]

\* the game is over while one bird is still left
tickDangerTimer_earlyGameOver(s, deltaMs, t) ==
    IF s.dangerStatus # "WARNING"
    THEN s
    ELSE LET newTime == s.dangerTimer - deltaMs
         IN  IF newTime <= 0
             THEN LET newCount == Max(0, s.birdCount - 1)
                  IN  [s EXCEPT !.dangerTimer = 0,
                                !.dangerStatus = "SAFE",
                                !.birdCount = newCount,
                                !.status = IF newCount <= 1 THEN "GAME_OVER" ELSE s.status,
                                !.lastHitTime = t]
             ELSE [s EXCEPT !.dangerTimer = newTime]

-----------------------------------------------------------------------------
(* The store: initial state and its actions, as functions of the state     *)
(* object.  t is the value Date.now() returns inside the action.           *)

InitialStore ==
    [ status |-> "MENU",
      dangerStatus |-> "SAFE",
      phase |-> "CORRIDOR",
      score |-> 0,
      birdCount |-> INITIAL_BIRDS,
      birdX |-> 0,
      birdY |-> 0,
      cameraPermissionGranted |-> FALSE,
      handDetected |-> FALSE,
      isFist |-> FALSE,
      lastHitTime |-> 0,
      dangerTimer |-> 0 ]

setStatus(s, status) == [s EXCEPT !.status = status]

\* the fist is not stored
setIsFist_dropped(s, isFist) == s

setBirdX(s, x) == [s EXCEPT !.birdX = x]

setBirdY(s, y) == [s EXCEPT !.birdY = y]

setIsFist(s, isFist) == [s EXCEPT !.isFist = isFist]

setCameraPermission(s, granted) == [s EXCEPT !.cameraPermissionGranted = granted]

setHandDetected(s, detected) == [s EXCEPT !.handDetected = detected]

incrementScore(s, amount) ==
    LET newScore == s.score + amount
        newPhase == IF newScore > PHASE2_SCORE /\ s.phase = "CORRIDOR"
                    THEN "HIGH_ALTITUDE" ELSE s.phase
        newStatus == IF newScore >= WIN_SCORE /\ s.status # "GAME_WON"
                     THEN "GAME_WON" ELSE s.status
    IN  [s EXCEPT !.score = newScore, !.phase = newPhase, !.status = newStatus]

triggerDanger(s, t) ==
    IF s.dangerStatus = "WARNING" \/ t - s.lastHitTime < COOLDOWN_MS
    THEN s
    ELSE [s EXCEPT !.dangerStatus = "WARNING",
                   !.dangerTimer = RESCUE_MS,
                   !.lastHitTime = t]

resolveDanger(s, success, t) ==
    IF s.dangerStatus # "WARNING"
    THEN s
    ELSE LET newCount == IF ~success THEN Max(0, s.birdCount - 1) ELSE s.birdCount
             newStatus == IF newCount <= 0 THEN "GAME_OVER" ELSE s.status
         IN  [s EXCEPT !.birdCount = newCount,
                       !.status = newStatus,
                       !.dangerStatus = "SAFE",
                       !.lastHitTime = t]

tickDangerTimer(s, deltaMs, t) ==
    IF s.dangerStatus # "WARNING"
    THEN s
    ELSE LET newTime == s.dangerTimer - deltaMs
         IN  IF newTime <= 0
             THEN LET newCount == Max(0, s.birdCount - 1)
                  IN  [s EXCEPT !.dangerTimer = 0,
                                !.dangerStatus = "SAFE",
                                !.birdCount = newCount,
                                !.status = IF newCount <= 0 THEN "GAME_OVER"
                                           ELSE s.status,
                                !.lastHitTime = t]
             ELSE [s EXCEPT !.dangerTimer = newTime]

\* a reset keeps the score
resetGame_keepingScore(s) ==
    [s EXCEPT !.status = "PLAYING",
              !.dangerStatus = "SAFE",
              !.phase = "CORRIDOR",
              !.birdCount = INITIAL_BIRDS,
              !.birdX = 0,
              !.birdY = 0,
              !.lastHitTime = 0,
              !.dangerTimer = 0]

resetGame(s) ==
    [s EXCEPT !.status = "PLAYING",
              !.dangerStatus = "SAFE",
              !.phase = "CORRIDOR",
              !.score = 0,
              !.birdCount = INITIAL_BIRDS,
              !.birdX = 0,
              !.birdY = 0,
              !.lastHitTime = 0,
              !.dangerTimer = 0]


-----------------------------------------------------------------------------
(* ObstacleManager: geometry of the collision test                         *)
(* (src/components/GameScene.tsx:716-766).  An angle is a whole number of  *)
(* degrees, one of 0, 90, 45, -45; the source's cosine and sine are taken  *)
(* exact.  A direction is kept as an integer pair in units of              *)
(* u = 1 (angle 0 or 90) or u = sqrt(2)/2 (angle 45 or -45).               *)

IsDiagonal(angle) == angle \in {45, -45}

\* cos(angle) / u and sin(angle) / u
CosU(angle) == IF angle = 90 THEN 0 ELSE 1
SinU(angle) == CASE angle = 0 -> 0
                 [] angle = -45 -> -1
                 [] OTHER -> 1

dirBaseX(laser) == IF laser.side = 1 THEN -1 ELSE 1

\* dirBaseY = 0, so the rotation leaves dirBaseX * cos and dirBaseX * sin
dirXU(laser) == dirBaseX(laser) * CosU(laser.angle)
dirYU(laser) == dirBaseX(laser) * SinU(laser.angle)

\* a / b < sqrt(2) for integers a >= 0, b > 0, decided exactly on the continued
\* fraction sqrt(2) = [1; 2, 2, 2, ...]; BelowSilver decides a / b < 1 + sqrt(2).
RECURSIVE BelowSilver(_, _)
BelowSilver(a, b) ==
    LET q == a \div b
        r == a % b
    IN  IF q # 2 THEN q < 2
        ELSE IF r = 0 THEN TRUE
        ELSE ~BelowSilver(b, r)

BelowSqrt2(a, b) ==
    LET q == a \div b
        r == a % b
    IN  IF q # 1 THEN q < 1
        ELSE IF r = 0 THEN TRUE
        ELSE ~BelowSilver(b, r)

\* world position of the flock, in fifths (SCENE_WIDTH = 20, SCENE_HEIGHT = 12,
\* offset 5; birdX, birdY in twentieths)
currentBirdX(birdX) == birdX * 5
currentBirdY(birdY) == birdY * 3 + 25

\* the clenched flock is the wide one
flockRadius_swapped(isFist) == IF isFist THEN 20 ELSE 5

flockRadius(isFist) == IF isFist THEN 5 ELSE 20

visualRadius(laser) == IF laser.type = "pillar" THEN 25 ELSE 4

\* the projection parameter t, in units of u
tU(laser, bx, by) == (bx - laser.x) * dirXU(laser) + (by - laser.y) * dirYU(laser)

\* the projection is never clamped at the far end
BeyondEnd_never(laser, bx, by) == FALSE

\* t > laser.width
BeyondEnd(laser, bx, by) ==
    LET t == tU(laser, bx, by)
    IN  IF IsDiagonal(laser.angle)
        THEN t > 0 /\ ~BelowSqrt2(t, laser.width)
        ELSE t > laser.width

\* (closestX, closestY), the projection clamped to the segment
\* (src/components/GameScene.tsx:746-756), as the doubled coordinates
\* 2 * closestX = x2 + rx * sqrt(2) and 2 * closestY = y2 + ry * sqrt(2).
closestPoint(laser, bx, by) ==
    LET t == tU(laser, bx, by)
        w == laser.width
    IN  IF t < 0
        THEN [x2 |-> 2 * laser.x, y2 |-> 2 * laser.y, rx |-> 0, ry |-> 0]
        ELSE IF BeyondEnd(laser, bx, by)
        THEN IF IsDiagonal(laser.angle)
             THEN [x2 |-> 2 * laser.x, y2 |-> 2 * laser.y,
                   rx |-> w * dirXU(laser), ry |-> w * dirYU(laser)]
             ELSE [x2 |-> 2 * (laser.x + w * dirXU(laser)),
                   y2 |-> 2 * (laser.y + w * dirYU(laser)), rx |-> 0, ry |-> 0]
        ELSE IF IsDiagonal(laser.angle)
             THEN [x2 |-> 2 * laser.x + t * dirXU(laser),
                   y2 |-> 2 * laser.y + t * dirYU(laser), rx |-> 0, ry |-> 0]
             ELSE [x2 |-> 2 * (laser.x + t * dirXU(laser)),
                   y2 |-> 2 * (laser.y + t * dirYU(laser)), rx |-> 0, ry |-> 0]

\* distSq < threshold * threshold, with the closest point clamped to the segment
Collides(laser, bx, by, isFist) ==
    LET dx == bx - laser.x
        dy == by - laser.y
        t == tU(laser, bx, by)
        w == laser.width
        threshold == visualRadius(laser) + flockRadius(isFist)
        d2 == dx * dx + dy * dy
    IN  IF t < 0
        THEN d2 < threshold * threshold
        ELSE IF BeyondEnd(laser, bx, by)
        THEN IF IsDiagonal(laser.angle)
             \* d2 + w^2 - sqrt(2) w t < threshold^2
             THEN LET a == d2 + w * w - threshold * threshold
                  IN  a < 0 \/ BelowSqrt2(a, w * t)
             ELSE d2 + w * w - 2 * w * t < threshold * threshold
        ELSE IF IsDiagonal(laser.angle)
             THEN 2 * d2 - t * t < 2 * threshold * threshold
             ELSE d2 - t * t < threshold * threshold

\* every depth counts as the flock's own
Abs_zero(n) == 0

Abs(n) == IF n < 0 THEN -n ELSE n

\* the obstacles stand still
Advance_still(d) == 0

\* LASER_SPEED * delta, delta = d / 1000 seconds
Advance(d) == (LASER_SPEED * d) \div 1000

\* an obstacle that hits the flock is taken out of the scene
RECURSIVE UpdateLasers_removingHit(_, _, _, _, _, _, _, _, _)
UpdateLasers_removingHit(prev, i, s, acc, d, t, bx, by, isFist) ==
    IF i > Len(prev)
    THEN [store |-> s, lasers |-> acc]
    ELSE LET laser == prev[i]
             newZ == laser.z + Advance(d)
             hit == Abs(newZ) < BAND_Z /\ Collides(laser, bx, by, isFist)
             s1 == IF hit THEN triggerDanger(s, t) ELSE s
         IN  IF newZ > RETIRE_Z
             THEN UpdateLasers_removingHit(prev, i + 1, incrementScore(s1, SCORE_PER_LASER),
                                           acc, d, t, bx, by, isFist)
             ELSE UpdateLasers_removingHit(prev, i + 1, s1,
                                           IF hit THEN acc
                                           ELSE Append(acc, [laser EXCEPT !.z = newZ]),
                                           d, t, bx, by, isFist)

\* The updater of src/components/GameScene.tsx:716-776 from laser i on: s is the
\* store as the calls made so far left it, acc the lasers kept so far.
RECURSIVE UpdateLasers(_, _, _, _, _, _, _, _, _)
UpdateLasers(prev, i, s, acc, d, t, bx, by, isFist) ==
    IF i > Len(prev)
    THEN [store |-> s, lasers |-> acc]
    ELSE LET laser == prev[i]
             newZ == laser.z + Advance(d)
             s1 == IF Abs(newZ) < BAND_Z /\ Collides(laser, bx, by, isFist)
                   THEN triggerDanger(s, t) ELSE s
         IN  IF newZ > RETIRE_Z
             THEN UpdateLasers(prev, i + 1, incrementScore(s1, SCORE_PER_LASER), acc,
                               d, t, bx, by, isFist)
             ELSE UpdateLasers(prev, i + 1, s1, Append(acc, [laser EXCEPT !.z = newZ]),
                               d, t, bx, by, isFist)

\* every obstacle is a beam
NewLaser_alwaysBeam(phase, id, draw) ==
    [id |-> id, z |-> SPAWN_Z, x |-> draw.x, y |-> draw.y, width |-> draw.length,
     side |-> draw.side, angle |-> draw.angleSign * 45, type |-> "beam"]

\* The obstacle spawned in a phase, from its random draws
\* (src/components/GameScene.tsx:677-712).
NewLaser(phase, id, draw) ==
    IF phase = "CORRIDOR"
    THEN [id |-> id, z |-> SPAWN_Z, x |-> draw.x, y |-> draw.y, width |-> draw.length,
          side |-> draw.side, angle |-> draw.angleSign * 45, type |-> "beam"]
    ELSE [id |-> id, z |-> SPAWN_Z, x |-> draw.px, y |-> -250, width |-> 600,
          side |-> -1, angle |-> 90, type |-> "pillar"]

-----------------------------------------------------------------------------
(* Bounds of the model *)

\* Date.now() when the page loads.  Any real value is far above the cooldown,
\* so a first collision is never blocked by lastHitTime = 0.
Epoch == 2000

\* The store is driven for at most this many milliseconds.
StoreHorizon == 34000

\* Largest score the store is driven to.
MaxScore == 1000

ClockSteps == {2000}
TickDeltas == {0, 1000, 3000}
ScoreAmounts == {0, 1, 10, 300}

\* The game is played for at most this many milliseconds.
GameHorizon == 9900
LongHorizon == 108900

\* The start button is pressed within this many milliseconds.
MenuHorizon == 3300

\* Frame times (ms): a slow frame, and one so slow that an obstacle crosses
\* from its spawn depth into the collision band in a single frame.
FrameDeltas == {1100, 3300}
LongFrameDeltas == {3300}

\* A game in which the last bird is lost as late as the winning score comes
\* within reach lasts at most this many milliseconds.
OutcomeHorizon == 267300

\* An obstacle live this long before the end of the game is followed until
\* it is retired: four of the shorter frames.
RetireWindow == 4400

\* A session that is won in slow frames and followed in fast frames from then
\* on: the frames are slow while a slow frame still ends within
\* TransitWarmUp, and the session lasts at most TransitHorizon milliseconds.
\* A fast frame moves an obstacle by half the width of the depth band.
TransitWarmUp == 316000
TransitHorizon == 320200
TransitDeltas == {50, 3300}

\* The game in which a WARNING is followed to its end is played for at most
\* this many milliseconds.  A WARNING running WarningWindow before that, three
\* of the shorter frames, is followed until it ends.
WarningHorizon == 6600
WarningWindow == 3300

\* A game played to victory lasts at most this many milliseconds, in frames so
\* slow that an obstacle crosses from its spawn depth past the retirement
\* depth in the frame that spawns it.
WinHorizon == 336000
WinFrameDeltas == {4000}

\* Obstacles inside the depth band and flock positions (fifths of a world
\* unit) on which the collision test is evaluated: beams from the origin
\* along both axes directions and both diagonals, a pillar, and a beam as
\* the corridor spawns it.
TestLasers ==
    { [id |-> 0, z |-> 0, x |-> 0, y |-> 0, width |-> w, side |-> side,
       angle |-> angle, type |-> "beam"] :
          w \in {25, 50}, side \in {1, -1}, angle \in {0, 45, -45} }
    \cup { [NewLaser("HIGH_ALTITUDE", 0, [px |-> 0]) EXCEPT !.z = 0],
           [NewLaser("CORRIDOR", 0, [x |-> 0, y |-> 49, side |-> -1, angleSign |-> 1,
                                     length |-> 200]) EXCEPT !.z = 0] }
TestXs == {-15, 0, 25, 30, 45, 50, 100}
TestYs == {-10, 0, 10, 25}

\* Math.random() draws: the fraction of the spawn-interval range, and the
\* obstacle's placement (x, y, length in fifths of a world unit).
IntervalFractions == {0}
BeamDraws == [x : {-50}, y : {-25}, side : {-1, 1}, angleSign : {1}, length : {200},
              px : {0}]
PillarDraws == [x : {0}, y : {0}, side : {-1}, angleSign : {1}, length : {600},
                px : {0, 100}]

\* Beams with both sides and both diagonals, for the spawning on its own.
SpawnBeamDraws == [x : {-50}, y : {-25}, side : {-1, 1}, angleSign : {1, -1},
                   length : {200}, px : {0}]

\* Beams that point away from the centre of the scene.
MissingBeamDraws == [x : {-50}, y : {-25}, side : {1}, angleSign : {1, -1},
                     length : {200}, px : {0}]

\* What the hand tracker reports: the knuckle's position in hundredths of the
\* video frame, and the mean distances of fingertips and of middle joints
\* from the wrist.
RawXs == {50, -10}
RawYs == {50}
TipPipDistances == {<<10, 20>>, <<20, 20>>}

\* Reports over the whole video frame and a little beyond its edges, for the
\* hand tracker on its own.
InputRawXs == {-10, 0, 30, 50, 70, 100, 110}
InputRawYs == {-10, 0, 25, 50, 75, 100, 110}

-----------------------------------------------------------------------------
(* State after construction *)

NoOp == [op |-> "init", n |-> 0, b |-> FALSE]

Init ==
    /\ store = InitialStore
    /\ now = Epoch
    /\ lasers = <<>>
    /\ lastSpawnTime = 0
    /\ nextSpawnInterval = INITIAL_SPAWN_INTERVAL
    /\ nextId = 0
    /\ effectDeps = <<"SAFE", FALSE>>
    /\ last = NoOp
    /\ before = InitialStore
    /\ fistAtWarning = FALSE
    /\ idAtReset = 0
    /\ delivered = <<0, 0, FALSE>>
    /\ warningEndedAt = 0
    /\ birdsAtWarning = INITIAL_BIRDS
    /\ tickedInWarning = 0
    /\ warnedBy = {}
    /\ retired = 0

\* The obstacle a frame's call of triggerDanger is made for first: the first
\* obstacle of the list, as the frame left it, that is inside the depth band
\* and touches the flock; -1 if there is none.
Culprit(ls, s) ==
    LET hits == { i \in 1..Len(ls) :
                    /\ Abs(ls[i].z) < BAND_Z
                    /\ Collides(ls[i], currentBirdX(s.birdX), currentBirdY(s.birdY),
                                s.isFist) }
    IN  IF hits = {} THEN -1
        ELSE ls[CHOOSE i \in hits : \A j \in hits : i <= j].id

\* a WARNING that was not running before the step is running after it
BeginsWarning ==
    /\ store'.dangerStatus = "WARNING"
    /\ store.dangerStatus # "WARNING" \/ store'.lastHitTime # store.lastHitTime

\* History kept by every step.  Date.now() inside a frame is the time the
\* frame ends at; any other step runs at the current time.
Track(op) ==
    \* a frame retires the obstacles it had, spawned one included, and has no more
    /\ retired' =
          IF op \in {"resetGame", "clickRestart"} THEN 0
          ELSE IF op = "frame"
          THEN retired + Len(lasers) + (nextId' - nextId) - Len(lasers')
          ELSE retired
    \* only a frame changes the obstacles
    /\ warnedBy' =
          IF op = "frame"
          THEN LET live == { lasers'[i].id : i \in 1..Len(lasers') }
               IN  IF BeginsWarning
                   THEN (warnedBy \cup {Culprit(lasers', store)}) \cap live
                   ELSE warnedBy \cap live
          ELSE warnedBy
    /\ tickedInWarning' =
          IF store'.dangerStatus # "WARNING" \/ store.dangerStatus # "WARNING"
             \/ op \in {"resetGame", "clickRestart"}
          THEN 0
          ELSE IF op = "frame" /\ store.status = "PLAYING"
          THEN tickedInWarning + last'.n
          ELSE tickedInWarning
    /\ birdsAtWarning' =
          IF store.dangerStatus = "WARNING" /\ store'.dangerStatus = "WARNING"
             /\ op \notin {"resetGame", "clickRestart"}
          THEN birdsAtWarning ELSE store'.birdCount
    /\ warningEndedAt' =
          IF op \in {"resetGame", "clickRestart"} \/ store'.dangerStatus = "WARNING" THEN 0
          ELSE IF store.dangerStatus = "WARNING"
          THEN (IF op = "frame" THEN now + last'.n ELSE now)
          ELSE warningEndedAt
    /\ fistAtWarning' = IF store.dangerStatus # "WARNING" /\ store'.dangerStatus = "WARNING"
                        THEN store.isFist ELSE fistAtWarning
    /\ idAtReset' = IF op \in {"resetGame", "clickRestart"} THEN nextId ELSE idAtReset
    \* the hand tracker's handlers record their report themselves; a reset
    \* re-centres the position
    /\ IF op = "predictWebcam"
       THEN TRUE
       ELSE delivered' = IF op \in {"resetGame", "clickRestart"}
                         THEN <<0, 0, delivered[3]>> ELSE delivered

\* a step of the running game
Did(op, n, b) ==
    /\ last' = [op |-> op, n |-> n, b |-> b]
    /\ UNCHANGED before
    /\ Track(op)

\* a direct call of a store action
Called(op, n, b) ==
    /\ last' = [op |-> op, n |-> n, b |-> b]
    /\ before' = store
    /\ Track(op)

sceneUnchanged == UNCHANGED <<lasers, lastSpawnTime, nextSpawnInterval, nextId, effectDeps>>

-----------------------------------------------------------------------------
(* The store's actions called directly, as a test of the store would      *)

CallIncrementScore(amount) ==
    /\ store.score + amount <= MaxScore
    /\ store' = incrementScore(store, amount)
    /\ Called("incrementScore", amount, FALSE)
    /\ UNCHANGED now /\ sceneUnchanged

CallTriggerDanger ==
    /\ store' = triggerDanger(store, now)
    /\ Called("triggerDanger", 0, FALSE)
    /\ UNCHANGED now /\ sceneUnchanged

CallResolveDanger(success) ==
    /\ store' = resolveDanger(store, success, now)
    /\ Called("resolveDanger", 0, success)
    /\ UNCHANGED now /\ sceneUnchanged

CallTickDangerTimer(deltaMs) ==
    /\ store' = tickDangerTimer(store, deltaMs, now)
    /\ Called("tickDangerTimer", deltaMs, FALSE)
    /\ UNCHANGED now /\ sceneUnchanged

CallResetGame ==
    /\ store' = resetGame(store)
    /\ Called("resetGame", 0, FALSE)
    /\ UNCHANGED now /\ sceneUnchanged

\* Time passes between two calls.
ClockAdvance(dt) ==
    /\ now + dt <= Epoch + StoreHorizon
    /\ now' = now + dt
    /\ UNCHANGED store /\ sceneUnchanged
    /\ Did("clock", dt, FALSE)

NextDanger ==
    \/ CallTriggerDanger
    \/ \E success \in BOOLEAN : CallResolveDanger(success)
    \/ \E deltaMs \in TickDeltas : CallTickDangerTimer(deltaMs)
    \/ CallResetGame
    \/ \E dt \in ClockSteps : ClockAdvance(dt)

SpecDanger == Init /\ [][NextDanger]_vars

NextScore ==
    \/ \E amount \in ScoreAmounts : CallIncrementScore(amount)
    \/ CallResetGame

SpecScore == Init /\ [][NextScore]_vars

-----------------------------------------------------------------------------
(* The running game *)

Intervals(phase) ==
    LET lo == IF phase = "CORRIDOR" THEN LASER_SPAWN_INTERVAL_MIN_P1
                                    ELSE LASER_SPAWN_INTERVAL_MIN_P2
        hi == IF phase = "CORRIDOR" THEN LASER_SPAWN_INTERVAL_MAX_P1
                                    ELSE LASER_SPAWN_INTERVAL_MAX_P2
    IN  { lo + (f * (hi - lo)) \div 100 : f \in IntervalFractions }

Draws(phase) == IF phase = "CORRIDOR" THEN BeamDraws ELSE PillarDraws

\* the frame loop never pauses
FramePaused_never(status) == FALSE

\* if (status !== GameStatus.PLAYING) return;   (src/components/GameScene.tsx:660)
FramePaused(status) == status # "PLAYING"

\* ObstacleManager's useFrame callback, d milliseconds after the previous frame
\* (src/components/GameScene.tsx:659-777).  status, birdX, birdY, isFist and
\* phase are the values of the render the callback closes over.
FrameWith(d, draw, interval, horizon) ==
    LET t == now + d
        time == t - Epoch
        ticked == tickDangerTimer(store, d, t)
        spawns == time - lastSpawnTime > nextSpawnInterval
        spawned == IF spawns
                   THEN Append(lasers, NewLaser(store.phase, nextId, draw))
                   ELSE lasers
        upd == UpdateLasers(spawned, 1, ticked, <<>>, d, t,
                            currentBirdX(store.birdX), currentBirdY(store.birdY),
                            store.isFist)
    IN  /\ t <= Epoch + horizon
        /\ store.status = "MENU" => t <= Epoch + MenuHorizon
        /\ now' = t
        /\ UNCHANGED effectDeps
        /\ IF FramePaused(store.status)
           THEN UNCHANGED <<store, lasers, lastSpawnTime, nextSpawnInterval, nextId>>
           ELSE /\ store' = upd.store
                /\ lasers' = upd.lasers
                /\ lastSpawnTime' = IF spawns THEN time ELSE lastSpawnTime
                /\ nextSpawnInterval' = IF spawns THEN interval ELSE nextSpawnInterval
                /\ nextId' = IF spawns THEN nextId + 1 ELSE nextId
        /\ Did("frame", d, FALSE)

Frame(d, horizon) ==
    \E draw \in Draws(store.phase), interval \in Intervals(store.phase) :
        FrameWith(d, draw, interval, horizon)

\* Flock's effect on [dangerStatus, isFist] (src/components/GameScene.tsx:422-427):
\* it runs after a render in which one of the two changed.
FlockEffect ==
    /\ <<store.dangerStatus, store.isFist>> # effectDeps
    /\ effectDeps' = <<store.dangerStatus, store.isFist>>
    /\ store' = IF store.dangerStatus = "WARNING" /\ store.isFist
                THEN resolveDanger(store, TRUE, now) ELSE store
    /\ Did("effect", 0, store.dangerStatus = "WARNING" /\ store.isFist)
    /\ UNCHANGED <<now, lasers, lastSpawnTime, nextSpawnInterval, nextId>>

\* the target is stored as computed
Clamp_unbounded(v) == v

Clamp(v) == Max(-20, Min(20, v))

\* (0.5 - rawX) * 2.5 and (0.5 - rawY) * 3.0, in twentieths
targetX(rawX) == ((50 - rawX) * 5) \div 10
targetY(rawY) == ((50 - rawY) * 6) \div 10

\* avgTipDist < avgPipDist * 0.9
isFistDetected(tipPip) == tipPip[1] * 10 < tipPip[2] * 9

\* startWebcam (src/components/HandController.tsx:40-52)
StartWebcam(granted) ==
    /\ ~store.cameraPermissionGranted
    /\ store' = setCameraPermission(store, granted)
    /\ Did("startWebcam", 0, granted)
    /\ UNCHANGED now /\ sceneUnchanged

\* predictWebcam on a video frame showing a hand
\* (src/components/HandController.tsx:64-109)
PredictHand(rawX, rawY, tipPip) ==
    /\ store.cameraPermissionGranted
    /\ store' = setIsFist(setBirdY(setBirdX(setHandDetected(store, TRUE),
                                             Clamp(targetX(rawX))),
                                    Clamp(targetY(rawY))),
                           isFistDetected(tipPip))
    /\ delivered' = <<Clamp(targetX(rawX)), Clamp(targetY(rawY)), isFistDetected(tipPip)>>
    /\ Did("predictWebcam", 1, isFistDetected(tipPip))
    /\ UNCHANGED now /\ sceneUnchanged

\* losing the hand also re-centres the flock
PredictNoHand_recentring ==
    /\ store.cameraPermissionGranted
    /\ store' = setIsFist(setBirdY(setBirdX(setHandDetected(store, FALSE), 0), 0),
                           FALSE)
    /\ delivered' = <<0, 0, FALSE>>
    /\ Did("predictWebcam", 0, FALSE)
    /\ UNCHANGED now /\ sceneUnchanged

\* predictWebcam on a video frame showing no hand
\* (src/components/HandController.tsx:111-114)
PredictNoHand ==
    /\ store.cameraPermissionGranted
    /\ store' = setIsFist(setHandDetected(store, FALSE), FALSE)
    /\ delivered' = <<delivered[1], delivered[2], FALSE>>
    /\ Did("predictWebcam", 0, FALSE)
    /\ UNCHANGED now /\ sceneUnchanged

\* The start button of the menu (src/unnamed/part_000:79-93)
ClickStart ==
    /\ store.status = "MENU"
    /\ store' = setStatus(store, "PLAYING")
    /\ Did("clickStart", 0, FALSE)
    /\ UNCHANGED now /\ sceneUnchanged

\* The restart buttons of the two end screens (src/unnamed/part_000:98-153)
ClickRestart ==
    /\ store.status \in {"GAME_OVER", "GAME_WON"}
    /\ store' = resetGame(store)
    /\ Did("clickRestart", 0, FALSE)
    /\ UNCHANGED now /\ sceneUnchanged

\* The first seconds of a game, frame by frame.  Neither end screen can be
\* reached within GameHorizon, so the restart buttons are never shown.
Next ==
    \/ \E d \in FrameDeltas : Frame(d, GameHorizon)
    \/ FlockEffect
    \/ \E granted \in BOOLEAN : StartWebcam(granted)
    \/ \E rawX \in RawXs, rawY \in RawYs, tipPip \in TipPipDistances :
          PredictHand(rawX, rawY, tipPip)
    \/ PredictNoHand
    \/ ClickStart

Spec == Init /\ [][Next]_vars

\* The hand tracker on its own, in the menu and in a game whose frames are
\* left out: every report it can deliver, in any order.
NextInput ==
    \/ \E granted \in BOOLEAN : StartWebcam(granted)
    \/ \E rawX \in InputRawXs, rawY \in InputRawYs, tipPip \in TipPipDistances :
          PredictHand(rawX, rawY, tipPip)
    \/ PredictNoHand
    \/ ClickStart

SpecInput == Init /\ [][NextInput]_vars

\* Whole games, in slow frames, up to the end screens and a restart.
NextLong ==
    \/ \E d \in LongFrameDeltas : Frame(d, LongHorizon)
    \/ FlockEffect
    \/ \E granted \in {TRUE} : StartWebcam(granted)
    \/ \E tipPip \in TipPipDistances : PredictHand(50, 50, tipPip)
    \/ ClickStart
    \/ ClickRestart

SpecLong == Init /\ [][NextLong]_vars

\* The frame loop with an open hand at the centre, through both phases, with
\* every kind of obstacle the spawning can draw.
SpawnDraws(phase) == IF phase = "CORRIDOR" THEN SpawnBeamDraws ELSE PillarDraws

NextSpawn ==
    \/ \E d \in LongFrameDeltas :
          \E draw \in SpawnDraws(store.phase), interval \in Intervals(store.phase) :
             FrameWith(d, draw, interval, LongHorizon)
    \/ ClickStart

SpecSpawn == Init /\ [][NextSpawn]_vars

\* The frame loop with an open hand at the centre.  requestAnimationFrame
\* calls the frame callback again and again, so a frame that stays possible
\* is eventually taken.
NextRetire ==
    \/ \E d \in FrameDeltas : Frame(d, GameHorizon)
    \/ ClickStart

SpecRetire ==
    /\ Init /\ [][NextRetire]_vars
    /\ WF_vars(\E d \in FrameDeltas : Frame(d, GameHorizon))

\* Whole games with an open hand at the centre, in slow frames, up to either
\* end screen: beams that miss the flock in the first phase, pillars that
\* cross it and pillars that miss it in the second, in any order.
OutcomeDraws(phase) == IF phase = "CORRIDOR" THEN MissingBeamDraws ELSE PillarDraws

NextOutcome ==
    \/ \E d \in LongFrameDeltas :
          \E draw \in OutcomeDraws(store.phase), interval \in Intervals(store.phase) :
             FrameWith(d, draw, interval, OutcomeHorizon)
    \/ ClickStart

SpecOutcome == Init /\ [][NextOutcome]_vars

\* The first seconds of a game with the hand held at the centre, open or
\* clenched; frames keep arriving.
NextWarning ==
    \/ \E d \in FrameDeltas : Frame(d, WarningHorizon)
    \/ FlockEffect
    \/ \E granted \in {TRUE} : StartWebcam(granted)
    \/ \E tipPip \in TipPipDistances : PredictHand(50, 50, tipPip)
    \/ ClickStart

SpecWarning ==
    /\ Init /\ [][NextWarning]_vars
    /\ WF_vars(\E d \in FrameDeltas : Frame(d, WarningHorizon))

\* A whole game, won, and the beginning of the next one, with an open hand at
\* the centre.
InWarmUp == \E d \in WinFrameDeltas : now + d <= Epoch + TransitWarmUp

NextTransit ==
    \/ InWarmUp /\ \E d \in WinFrameDeltas : Frame(d, TransitWarmUp)
    \/ ~InWarmUp /\ \E d \in TransitDeltas : Frame(d, TransitHorizon)
    \/ ClickStart
    \/ ClickRestart

SpecTransit == Init /\ [][NextTransit]_vars

\* Whole games without a collision, up to the victory screen and a restart.
NextWin ==
    \/ \E d \in WinFrameDeltas : Frame(d, WinHorizon)
    \/ FlockEffect
    \/ \E granted \in {TRUE} : StartWebcam(granted)
    \/ \E tipPip \in TipPipDistances : PredictHand(50, 50, tipPip)
    \/ ClickStart
    \/ ClickRestart

SpecWin == Init /\ [][NextWin]_vars

-----------------------------------------------------------------------------
(* The collision test on its own *)

InitCollision ==
    /\ store = InitialStore
    /\ now = Epoch
    /\ lasers \in { <<laser>> : laser \in TestLasers }
    /\ lastSpawnTime = 0
    /\ nextSpawnInterval = INITIAL_SPAWN_INTERVAL
    /\ nextId = 1
    /\ effectDeps = <<"SAFE", FALSE>>
    /\ last = NoOp
    /\ before = InitialStore
    /\ fistAtWarning = FALSE
    /\ idAtReset = 0
    /\ delivered = <<0, 0, FALSE>>
    /\ warningEndedAt = 0
    /\ birdsAtWarning = INITIAL_BIRDS
    /\ tickedInWarning = 0
    /\ warnedBy = {}
    /\ retired = 0

\* The test of src/components/GameScene.tsx:731-766 for the live obstacle and
\* a flock at (bx, by): the closest point and whether a hit is reported.
CollisionTest(bx, by, isFist) ==
    /\ UNCHANGED <<store, now>> /\ sceneUnchanged
    /\ Did("collisionTest",
           [bx |-> bx, by |-> by, isFist |-> isFist,
            closest |-> closestPoint(lasers[1], bx, by)],
           Collides(lasers[1], bx, by, isFist))

NextCollision ==
    \E bx \in TestXs, by \in TestYs, isFist \in BOOLEAN : CollisionTest(bx, by, isFist)

SpecCollision == InitCollision /\ [][NextCollision]_vars

-----------------------------------------------------------------------------
(* Claims *)

\* C1: a reset yields status PLAYING, phase CORRIDOR, score 0, birdCount 16,
\* dangerStatus SAFE, dangerTimer 0 and an empty set of live obstacles, and no
\* frame after the reset observes an obstacle spawned before the reset.
C1_ResetClearsObstacles ==
    /\ last.op = "clickRestart" =>
          /\ store.status = "PLAYING"
          /\ store.phase = "CORRIDOR"
          /\ store.score = 0
          /\ store.birdCount = INITIAL_BIRDS
          /\ store.dangerStatus = "SAFE"
          /\ store.dangerTimer = 0
          /\ lasers = <<>>
    /\ \A i \in 1..Len(lasers) : lasers[i].id >= idAtReset

\* C2: the rescue is edge-triggered: the effect invokes resolveDanger(true)
\* only after isFist changed from false to true during the WARNING, so a fist
\* that was already closed when the WARNING began does not resolve it.
C2_RescueIsEdgeTriggered ==
    (last.op = "effect" /\ last.b) => ~fistAtWarning

\* C3: once birdCount is 0 the status is GAME_OVER, and until resetGame every
\* tickDangerTimer and triggerDanger call leaves the whole store unchanged.
C3_NoOpAfterGameOver ==
    /\ [](store.birdCount = 0 => store.status = "GAME_OVER")
    /\ [][(store.birdCount = 0 /\ last'.op \in {"tickDangerTimer", "triggerDanger"})
            => store' = store]_vars

\* C4: over any sequence of incrementScore calls from a reset or initial
\* state the score never decreases, the phase is HIGH_ALTITUDE exactly when
\* the score has passed 300 (at exactly 300 it is still CORRIDOR), and no
\* incrementScore call returns the phase to CORRIDOR.
C4_ScoreAndPhase ==
    /\ [](store.phase = "HIGH_ALTITUDE" <=> store.score > PHASE2_SCORE)
    /\ [][last'.op = "incrementScore" =>
            /\ store'.score >= store.score
            /\ store.phase = "HIGH_ALTITUDE" => store'.phase = "HIGH_ALTITUDE"]_vars

\* an incrementScore call took the score from exactly 300, still CORRIDOR,
\* into HIGH_ALTITUDE
C4_Witness ==
    /\ last.op = "incrementScore"
    /\ before.score = PHASE2_SCORE /\ before.phase = "CORRIDOR"
    /\ store.score > PHASE2_SCORE /\ store.phase = "HIGH_ALTITUDE"

\* C5: every incrementScore call adds its amount to the score; the call that
\* brings the score to 800 or more sets status GAME_WON, every later call
\* leaves it GAME_WON, and a call below 800 leaves the status as it was.
C5_WinIsSticky ==
    [][last'.op = "incrementScore" =>
        /\ store'.score = store.score + last'.n
        /\ store'.status = IF store'.score >= WIN_SCORE THEN "GAME_WON" ELSE store.status
        /\ store.status = "GAME_WON" => store'.status = "GAME_WON"]_vars

\* an incrementScore call after the game was won added to the score and left
\* the status GAME_WON
C5_Witness ==
    /\ last.op = "incrementScore" /\ last.n > 0
    /\ before.status = "GAME_WON"
    /\ store.status = "GAME_WON" /\ store.score = before.score + last.n

\* C6: triggerDanger at time now changes nothing if dangerStatus is WARNING
\* or now - lastHitTime < 2000; otherwise it sets dangerStatus WARNING,
\* dangerTimer 3000 and lastHitTime now, and nothing else.
C6_TriggerDanger ==
    [][last'.op = "triggerDanger" =>
        store' = IF store.dangerStatus = "WARNING" \/ now - store.lastHitTime < COOLDOWN_MS
                 THEN store
                 ELSE [store EXCEPT !.dangerStatus = "WARNING",
                                    !.dangerTimer = RESCUE_MS,
                                    !.lastHitTime = now]]_vars

\* a triggerDanger call exactly 2000 ms after the previous hit started a
\* WARNING
C6_Witness ==
    /\ last.op = "triggerDanger"
    /\ before.dangerStatus = "SAFE" /\ before.lastHitTime > 0
    /\ now - before.lastHitTime = COOLDOWN_MS
    /\ store.dangerStatus = "WARNING" /\ store.lastHitTime = now

\* C7: in WARNING a tickDangerTimer call that does not use up the timer only
\* lowers the timer, and the call that uses it up leaves the state of
\* resolveDanger(false) with dangerTimer 0: birdCount decreased by exactly 1,
\* dangerStatus SAFE, lastHitTime now, and status GAME_OVER iff the new
\* birdCount is 0.
C7_ExpiryIsFailedRescue ==
    [][(last'.op = "tickDangerTimer" /\ store.dangerStatus = "WARNING") =>
        IF last'.n < store.dangerTimer
        THEN store' = [store EXCEPT !.dangerTimer = store.dangerTimer - last'.n]
        ELSE /\ store' = [resolveDanger(store, FALSE, now) EXCEPT !.dangerTimer = 0]
             /\ store'.birdCount = store.birdCount - 1
             /\ store'.dangerStatus = "SAFE"
             /\ store'.dangerTimer = 0
             /\ store'.lastHitTime = now
             /\ store'.status = "GAME_OVER" <=> store'.birdCount = 0]_vars

\* C8: resolveDanger called in WARNING sets dangerStatus SAFE and lastHitTime
\* now; on failure birdCount becomes max(0, birdCount - 1) and status becomes
\* GAME_OVER exactly when the new birdCount is <= 0; on success birdCount and
\* status are unchanged.
C8_ResolveDanger ==
    [][(last'.op = "resolveDanger" /\ store.dangerStatus = "WARNING") =>
        /\ store'.dangerStatus = "SAFE"
        /\ store'.lastHitTime = now
        /\ IF last'.b
           THEN store'.birdCount = store.birdCount /\ store'.status = store.status
           ELSE /\ store'.birdCount = Max(0, store.birdCount - 1)
                /\ store'.status = IF store'.birdCount <= 0 THEN "GAME_OVER"
                                                           ELSE store.status]_vars

\* a failed resolveDanger in WARNING took the last bird and ended the game
C8_Witness ==
    /\ last.op = "resolveDanger" /\ ~last.b
    /\ before.dangerStatus = "WARNING" /\ before.birdCount = 1
    /\ before.status # "GAME_OVER"
    /\ store.birdCount = 0 /\ store.status = "GAME_OVER" /\ store.dangerStatus = "SAFE"

\* C9: between store operations dangerTimer is within [0, 3000], and
\* dangerStatus WARNING implies dangerTimer > 0.
C9_DangerTimerRange ==
    /\ store.dangerTimer >= 0
    /\ store.dangerTimer <= RESCUE_MS
    /\ store.dangerStatus = "WARNING" => store.dangerTimer > 0

\* a tick brought the timer of a WARNING to exactly 0 and left WARNING
C9_Witness ==
    /\ last.op = "tickDangerTimer" /\ last.n > 0
    /\ before.dangerStatus = "WARNING" /\ before.dangerTimer = last.n
    /\ store.dangerStatus = "SAFE" /\ store.dangerTimer = 0

\* C10: birdCount is always an integer in [0, 16]; it returns to 16 on a
\* reset, it decreases, by one, only in a frame in which the rescue timer
\* expires, and no other step of the game changes it: not a frame that
\* scores or triggers a danger, not a successful rescue, not the start
\* button, not the hand tracker.
C10_BirdCount ==
    /\ [](store.birdCount \in 0..INITIAL_BIRDS)
    /\ [][store'.birdCount =
            IF last'.op = "clickRestart"
            THEN INITIAL_BIRDS
            ELSE IF /\ last'.op = "frame"
                    /\ store.status = "PLAYING"
                    /\ store.dangerStatus = "WARNING"
                    /\ store.dangerTimer <= last'.n
                 THEN store.birdCount - 1
                 ELSE store.birdCount]_vars

\* the rescue timer expired in a frame and took the last bird
C10_Witness ==
    /\ last.op = "frame"
    /\ store.birdCount = 0 /\ store.status = "GAME_OVER"
    /\ store.dangerStatus = "SAFE" /\ store.lastHitTime = now

\* C11: in every state of the running game, status GAME_OVER implies
\* birdCount = 0.
C11_GameOverHasNoBirds ==
    store.status = "GAME_OVER" => store.birdCount = 0

\* the game is over and the frame loop, the hand tracker and the effect
\* went on running
C11_Witness ==
    /\ store.status = "GAME_OVER" /\ store.birdCount = 0
    /\ last.op = "predictWebcam" /\ store.lastHitTime < now

\* C12: in every state of the running game, status GAME_WON implies
\* score >= 800.
C12_WonHasWinningScore ==
    store.status = "GAME_WON" => store.score >= WIN_SCORE

\* the frame that retired the eightieth obstacle won the game
C12_Witness ==
    /\ store.status = "GAME_WON" /\ store.score = WIN_SCORE
    /\ last.op = "frame"

\* C13: a frame executed while status is not PLAYING advances nothing: the
\* store (score, dangerTimer, birdCount and every other field), the live
\* obstacles and the spawn schedule are unchanged.
C13_PausedFrameAdvancesNothing ==
    [][(last'.op = "frame" /\ store.status # "PLAYING") =>
        UNCHANGED <<store, lasers, lastSpawnTime, nextSpawnInterval, nextId>>]_vars

\* a frame ran after the game was over and left the live obstacle where it was
C13_Witness ==
    /\ last.op = "frame"
    /\ store.status = "GAME_OVER" /\ store.lastHitTime < now
    /\ lasers # <<>> /\ lasers[1].z < 0

\* C14: each obstacle is retired exactly once.  After any frame no live
\* obstacle has z > 20 and the live obstacles are distinct; a frame of the
\* running game keeps exactly the obstacles whose new depth is at most 20,
\* credits 10 points for each one it removes, and adds no obstacle but the
\* freshly spawned one, so a retired obstacle never reappears.
C14_RetiredExactlyOnce ==
    /\ [](\A i \in 1..Len(lasers) :
            /\ lasers[i].z <= 20
            /\ lasers[i].id < nextId
            /\ \A j \in 1..Len(lasers) : lasers[i].id = lasers[j].id => i = j)
    /\ [][(last'.op = "frame" /\ store.status = "PLAYING") =>
            LET old == { lasers[i].id : i \in 1..Len(lasers) }
                new == { lasers'[i].id : i \in 1..Len(lasers') }
                fresh == IF nextId' > nextId THEN {nextId} ELSE {}
                passed == { lasers[i].id : i \in { k \in 1..Len(lasers) :
                                lasers[k].z + (60 * last'.n) \div 1000 > 20 } }
            IN  /\ new \subseteq old \cup fresh
                /\ old \ new = passed
                /\ store'.score = store.score + 10 * Cardinality((old \cup fresh) \ new)]_vars

\* a frame retired an obstacle that had been live and credited it
C14_Witness ==
    /\ last.op = "frame"
    /\ store.score = 10
    /\ \A i \in 1..Len(lasers) : lasers[i].id > 0
    /\ nextId > 1

\* C15: for an obstacle inside the depth band the collision test reports a
\* hit exactly when the distance from the flock to the closest point of the
\* segment is at most obstacleVisualRadius + flockCollisionRadius, compared
\* as squares; a distance equal to the radius sum counts as a hit.  (Stated
\* where the closest point has rational coordinates.)
C15_HitIffWithinRadii ==
    last.op = "collisionTest" =>
        LET c == last.n.closest
            threshold == visualRadius(lasers[1]) + flockRadius(last.n.isFist)
            distSq4 == (2 * last.n.bx - c.x2) * (2 * last.n.bx - c.x2)
                       + (2 * last.n.by - c.y2) * (2 * last.n.by - c.y2)
        IN  (c.rx = 0 /\ c.ry = 0) =>
                (last.b <=> distSq4 <= 4 * threshold * threshold)

\* C16: the closest point of the collision test is the point-to-segment
\* closest point: with the direction (-1,0) if side = 1 else (1,0), rotated
\* by the angle, the projection of the flock position is clamped to
\* [0, length]; a flock before the origin maps to the origin and one beyond
\* the end maps to the end point.
C16_ClosestPointIsClamped ==
    last.op = "collisionTest" =>
        LET laser == lasers[1]
            px == last.n.bx - laser.x
            py == last.n.by - laser.y
            len == laser.width
            base == IF laser.side = 1 THEN -1 ELSE 1
            \* the rotated base vector; for the diagonals in units of sqrt(2)/2
            dx == IF laser.angle = 90 THEN 0 ELSE base
            dy == CASE laser.angle = 0 -> 0
                    [] laser.angle = -45 -> -base
                    [] OTHER -> base
            q == px * dx + py * dy
            c == last.n.closest
        IN  IF laser.angle \in {0, 90}
            THEN LET clamped == IF q < 0 THEN 0 ELSE IF q > len THEN len ELSE q
                 IN  c = [x2 |-> 2 * (laser.x + clamped * dx),
                          y2 |-> 2 * (laser.y + clamped * dy), rx |-> 0, ry |-> 0]
            ELSE IF q <= 0
            THEN c = [x2 |-> 2 * laser.x, y2 |-> 2 * laser.y, rx |-> 0, ry |-> 0]
            ELSE IF q * q > 2 * len * len
            THEN c = [x2 |-> 2 * laser.x, y2 |-> 2 * laser.y,
                      rx |-> len * dx, ry |-> len * dy]
            ELSE c = [x2 |-> 2 * laser.x + q * dx, y2 |-> 2 * laser.y + q * dy,
                      rx |-> 0, ry |-> 0]

\* origin (0,0), direction (1,0), length 5 and the flock at (10,0): the
\* closest point is the end point (5,0)
C16_Witness ==
    /\ last.op = "collisionTest"
    /\ lasers[1].side = -1 /\ lasers[1].angle = 0 /\ lasers[1].width = 25
    /\ lasers[1].x = 0 /\ lasers[1].y = 0
    /\ last.n.bx = 50 /\ last.n.by = 0
    /\ last.n.closest = [x2 |-> 50, y2 |-> 0, rx |-> 0, ry |-> 0]

C18_PositionInRange ==
    /\ store.birdX \in -20..20
    /\ store.birdY \in -20..20
    /\ (last.op = "predictWebcam" /\ last.n = 1) =>
          /\ store.birdX \in {Clamp(targetX(rawX)) : rawX \in InputRawXs}
          /\ store.birdY \in {Clamp(targetY(rawY)) : rawY \in InputRawYs}
          /\ store.handDetected

\* a report beyond both edges was stored at the two ends of the range, which
\* no target inside the range reaches
C18_Witness ==
    /\ last.op = "predictWebcam" /\ last.n = 1
    /\ store.birdX = 20 /\ store.birdY = -20
    /\ 20 \notin {targetX(rawX) : rawX \in InputRawXs}
    /\ -20 \notin {targetY(rawY) : rawY \in InputRawYs}

\* C19: a video frame without a hand keeps birdX and birdY at their last
\* values; only handDetected and isFist change, both to false.
C19_NoHandKeepsPosition ==
    [][(last'.op = "predictWebcam" /\ last'.n = 0) =>
          store' = [store EXCEPT !.handDetected = FALSE, !.isFist = FALSE]]_vars

\* the hand was lost away from the centre, and the flock stayed there
C19_Witness ==
    /\ last.op = "predictWebcam" /\ last.n = 0
    /\ store.birdX = 20 /\ store.birdY = -15
    /\ ~store.handDetected /\ ~store.isFist

\* C20: resolveDanger(success), for either value of success, and
\* tickDangerTimer(deltaMs), called while dangerStatus is not WARNING, change
\* no field: no bird is lost, the game does not end, lastHitTime stays.
C20_NoOpOutsideWarning ==
    (last.op \in {"resolveDanger", "tickDangerTimer"} /\ before.dangerStatus # "WARNING")
        => store = before

\* a failed rescue reported after an earlier loss, with no warning running and
\* birds left: the count and the time of the last hit are as they were
C20_Witness ==
    /\ last.op = "resolveDanger" /\ ~last.b
    /\ before.dangerStatus = "SAFE"
    /\ before.birdCount \in 1..(INITIAL_BIRDS - 1)
    /\ before.lastHitTime > 0 /\ before.lastHitTime < now
    /\ store.birdCount = before.birdCount /\ store.lastHitTime = before.lastHitTime

\* C21: tickDangerTimer(deltaMs) in WARNING with dangerTimer - deltaMs > 0
\* sets dangerTimer to dangerTimer - deltaMs and changes no other field.
C21_TickOnlyLowersTimer ==
    (/\ last.op = "tickDangerTimer"
     /\ before.dangerStatus = "WARNING"
     /\ before.dangerTimer - last.n > 0)
        => store = [before EXCEPT !.dangerTimer = before.dangerTimer - last.n]

\* a second tick of one second, a clock step after the warning began
C21_Witness ==
    /\ last.op = "tickDangerTimer" /\ last.n = 1000
    /\ before.dangerStatus = "WARNING" /\ before.dangerTimer = 2000
    /\ store.dangerStatus = "WARNING" /\ store.dangerTimer = 1000
    /\ store.lastHitTime < now

\* C22: resolveDanger(true) in WARNING leaves dangerTimer at its value and
\* makes dangerStatus SAFE, so SAFE does not imply dangerTimer = 0; a store
\* action brings a non-zero dangerTimer to 0 only as an expiring tick or as
\* resetGame.
C22_RescueKeepsTimer ==
    /\ (last.op = "resolveDanger" /\ last.b /\ before.dangerStatus = "WARNING")
          => (store.dangerStatus = "SAFE" /\ store.dangerTimer = before.dangerTimer)
    /\ (/\ last.op \in {"triggerDanger", "resolveDanger", "tickDangerTimer", "resetGame"}
        /\ before.dangerTimer # 0
        /\ store.dangerTimer = 0)
          => \/ last.op = "resetGame"
             \/ /\ last.op = "tickDangerTimer"
                /\ before.dangerStatus = "WARNING"
                /\ before.dangerTimer - last.n <= 0

\* SAFE after a rescue, with two seconds left on the timer
C22_Witness ==
    /\ last.op = "resolveDanger" /\ last.b
    /\ before.dangerStatus = "WARNING" /\ before.dangerTimer = 2000
    /\ store.dangerStatus = "SAFE" /\ store.dangerTimer = 2000
    /\ store.birdCount = before.birdCount

\* C23: every end of a WARNING (rescue, failed resolve, expiry) restarts the
\* cooldown: a WARNING begins no less than COOLDOWN_MS after the previous one
\* ended, however often triggerDanger is called in between; resetGame clears
\* the cooldown (lastHitTime = 0).
C23_CooldownAfterResolution ==
    [][/\ (/\ store.dangerStatus # "WARNING"
           /\ store'.dangerStatus = "WARNING"
           /\ warningEndedAt # 0)
             => now' - warningEndedAt >= COOLDOWN_MS
       /\ (store.dangerStatus = "WARNING" /\ store'.dangerStatus # "WARNING"
              /\ last'.op # "resetGame")
             => store'.lastHitTime = now'
       /\ last'.op = "resetGame" => store'.lastHitTime = 0]_vars

\* a call of triggerDanger at the time a WARNING ended a clock step after it
\* began, refused
C23_Witness ==
    /\ last.op = "triggerDanger"
    /\ before.dangerStatus = "SAFE" /\ store.dangerStatus = "SAFE"
    /\ warningEndedAt = now
    /\ now >= Epoch + COOLDOWN_MS + COOLDOWN_MS

\* C24: the frame loop calls triggerDanger only for an obstacle whose depth
\* after the frame's advance is strictly inside the band |z| < 3: a frame that
\* began a WARNING left a live obstacle inside the band that touches the
\* flock; an obstacle outside the band begins none, wherever the flock is.
C24_HitOnlyInsideBand ==
    (last.op = "frame" /\ store.dangerStatus = "WARNING" /\ store.lastHitTime = now)
        => \E i \in 1..Len(lasers) :
              /\ lasers[i].z > -BAND_Z /\ lasers[i].z < BAND_Z
              /\ Collides(lasers[i], currentBirdX(store.birdX),
                          currentBirdY(store.birdY), store.isFist)

\* a frame began a WARNING on an obstacle inside the band while another
\* obstacle, outside the band, lay across the flock as well
C24_Witness ==
    /\ last.op = "frame" /\ store.dangerStatus = "WARNING" /\ store.lastHitTime = now
    /\ \E i, j \in 1..Len(lasers) :
          /\ lasers[i].z > -BAND_Z /\ lasers[i].z < BAND_Z
          /\ lasers[j].z <= -BAND_Z
          /\ Collides(lasers[j], currentBirdX(store.birdX),
                      currentBirdY(store.birdY), store.isFist)

\* C25: a frame changes a surviving obstacle only in its depth, which grows
\* by LASER_SPEED * delta; id, origin, length, side, angle and kind stay, hit
\* or not, and a hit does not remove the obstacle: every obstacle whose new
\* depth is at most 20 is live after the frame, in the same order.
C25_OnlyDepthChanges ==
    [][(last'.op = "frame" /\ store.status = "PLAYING") =>
          LET adv == (LASER_SPEED * last'.n) \div 1000
              kept == SelectSeq(lasers, LAMBDA laser : laser.z + adv <= RETIRE_Z)
          IN  /\ Len(lasers') >= Len(kept)
              /\ \A i \in 1..Len(kept) :
                    lasers'[i] = [kept[i] EXCEPT !.z = kept[i].z + adv]]_vars

\* an obstacle inside the band after the frame that began a WARNING on it,
\* with an older first obstacle ahead of it
C25_Witness ==
    /\ last.op = "frame" /\ store.dangerStatus = "WARNING" /\ store.lastHitTime = now
    /\ Len(lasers) >= 2
    /\ lasers[1].id < lasers[2].id
    /\ \E i \in 1..Len(lasers) :
          /\ lasers[i].id < nextId - 1
          /\ lasers[i].z > -BAND_Z /\ lasers[i].z < BAND_Z
          /\ Collides(lasers[i], currentBirdX(store.birdX),
                      currentBirdY(store.birdY), store.isFist)

\* C26: the kind of a spawned obstacle is fixed by the phase at spawn time:
\* in CORRIDOR a beam with angle +45 or -45 degrees and side -1 or 1, in
\* HIGH_ALTITUDE a pillar with side -1 and angle 90 degrees, direction (0, 1),
\* rising from y = -50; a frame spawns at most one obstacle, at depth -200.
C26_KindFollowsPhase ==
    [][last'.op = "frame" =>
          /\ nextId' \in {nextId, nextId + 1}
          /\ \A i \in 1..Len(lasers') :
                lasers'[i].id >= nextId =>
                   LET laser == lasers'[i]
                   IN  /\ laser.id = nextId /\ i = Len(lasers')
                       /\ laser.z = SPAWN_Z + (LASER_SPEED * last'.n) \div 1000
                       /\ IF store.phase = "CORRIDOR"
                          THEN /\ laser.type = "beam"
                               /\ laser.angle \in {45, -45}
                               /\ laser.side \in {-1, 1}
                          ELSE /\ laser.type = "pillar"
                               /\ laser.side = -1 /\ laser.angle = 90
                               /\ dirXU(laser) = 0 /\ dirYU(laser) = 1
                               /\ ~IsDiagonal(laser.angle)
                               /\ laser.y = -250]_vars

\* a pillar spawned by the last frame, after beams of both diagonals had been
\* spawned and retired in the first phase
C26_Witness ==
    /\ last.op = "frame" /\ store.phase = "HIGH_ALTITUDE"
    /\ Len(lasers) = 1
    /\ lasers[1].type = "pillar" /\ lasers[1].id = nextId - 1
    /\ lasers[1].z = SPAWN_Z + (LASER_SPEED * last.n) \div 1000

\* C27: every spawned obstacle is eventually retired: while status stays
\* PLAYING and frames keep arriving, an obstacle created at depth -200 passes
\* depth 20 after finitely many frames and leaves the live set, so the live
\* set stays bounded.  Frames arrive up to GameHorizon; an obstacle live
\* RetireWindow before that is retired.
MinFrameDelta == CHOOSE d \in FrameDeltas : \A e \in FrameDeltas : d <= e

Live(id) == \E i \in 1..Len(lasers) : lasers[i].id = id

C27_EventuallyRetired ==
    /\ [](Len(lasers) <= (RETIRE_Z - SPAWN_Z) \div ((LASER_SPEED * MinFrameDelta) \div 1000) + 1)
    /\ \A id \in 0..(GameHorizon \div MinFrameDelta) :
          (Live(id) /\ now + RetireWindow <= Epoch + GameHorizon)
             ~> (~Live(id) \/ store.status # "PLAYING")

\* the first obstacle has been retired and scored while later ones are live
C27_Witness ==
    /\ last.op = "frame" /\ store.status = "PLAYING"
    /\ store.score = SCORE_PER_LASER
    /\ nextId >= 3 /\ ~Live(0) /\ Live(1) /\ Live(2)

\* C28: clenching the fist never creates a collision: the flock's radius is
\* 1.0 (5 fifths) with the fist and 4.0 (20 fifths) without, and for the same
\* obstacle and flock position a hit with the fist implies a hit without.
C28_FistNeverAddsHit ==
    /\ flockRadius(TRUE) = 5 /\ flockRadius(FALSE) = 20
    /\ (last.op = "collisionTest" /\ last.n.isFist /\ last.b)
          => Collides(lasers[1], last.n.bx, last.n.by, FALSE)

\* a hit with the fist clenched, off the obstacle's axis
C28_Witness ==
    /\ last.op = "collisionTest" /\ last.n.isFist /\ last.b
    /\ lasers[1].type = "beam" /\ lasers[1].angle = 45
    /\ last.n.bx = 30 /\ last.n.by = 25

\* C29: the terminal outcomes exclude each other: a game that is over stays
\* over until resetGame, also when incrementScore is called later in the frame
\* in which the timer expired and the last bird was lost; no state has
\* birdCount = 0 and status GAME_WON.
C29_TerminalOutcomesExclusive ==
    /\ store.status = "GAME_WON" => store.birdCount > 0
    /\ store.birdCount = 0 => store.status = "GAME_OVER"

\* C30: a WARNING costs at most one bird: from the moment it begins to the
\* return to SAFE birdCount goes down by 0 (rescue by the gesture effect) or
\* by exactly 1 (expiry in a frame), however frames, reports of the hand
\* tracker and the gesture effect interleave; with no WARNING running no bird
\* is lost.
C30_OneBirdPerWarning ==
    [][last'.op # "clickRestart" =>
          IF store.dangerStatus = "WARNING"
          THEN /\ store.birdCount = birdsAtWarning
               /\ store'.dangerStatus = "WARNING" => store'.birdCount = birdsAtWarning
               /\ store'.dangerStatus = "SAFE" =>
                     /\ birdsAtWarning - store'.birdCount \in {0, 1}
                     /\ last'.op = "effect" => store'.birdCount = birdsAtWarning
                     /\ last'.op = "frame" => store'.birdCount = birdsAtWarning - 1
          ELSE store'.birdCount = store.birdCount]_vars

\* a WARNING has just expired in a frame and cost the third bird, after a
\* WARNING that the fist ended in time
C30_Witness ==
    /\ last.op = "frame" /\ store.dangerStatus = "SAFE"
    /\ store.lastHitTime = now /\ warningEndedAt = now
    /\ store.birdCount = INITIAL_BIRDS - 3
    /\ store.isFist

\* C31: a WARNING always ends: while status stays PLAYING and frames keep
\* arriving, a WARNING is followed by SAFE, by rescue or by expiry, and no
\* WARNING is still running once RESCUE_MS of frame time have been ticked off
\* since it began.  Frames arrive up to WarningHorizon; a WARNING running
\* WarningWindow before that is followed to its end.
C31_WarningEnds ==
    /\ [](store.dangerStatus = "WARNING" => tickedInWarning < RESCUE_MS)
    /\ (store.dangerStatus = "WARNING" /\ now + WarningWindow <= Epoch + WarningHorizon)
          ~> (store.dangerStatus = "SAFE" \/ store.status # "PLAYING")

\* the third short frame of a WARNING has just ended it by expiry
C31_Witness ==
    /\ last.op = "frame" /\ last.n = MinFrameDelta
    /\ store.dangerStatus = "SAFE" /\ warningEndedAt = now
    /\ store.lastHitTime = now
    /\ store.birdCount = INITIAL_BIRDS - 1
    /\ store.status = "PLAYING"

\* C32: one obstacle begins at most one WARNING: however early the rescue,
\* the obstacle a frame begins a WARNING for has begun none before, because
\* the cooldown restarted at the end of the first WARNING outlasts the
\* obstacle's way through the depth band.
C32_OneWarningPerObstacle ==
    [][(last'.op = "frame" /\ BeginsWarning) => Culprit(lasers', store) \notin warnedBy]_vars

\* C33: score accounting: in every state score is 10 times the number of
\* obstacles retired since the last resetGame, hence a non-negative multiple
\* of 10, and score changes only in a frame that retires at least one
\* obstacle.
C33_ScoreCountsRetired ==
    [][/\ store'.score = SCORE_PER_LASER * retired'
       /\ store'.score >= 0 /\ store'.score % 10 = 0
       /\ (store'.score # store.score /\ last'.op # "clickRestart")
             => (last'.op = "frame" /\ retired' > retired)]_vars

\* the second game, after a game won and a restart, has scored its second
\* obstacle
C33_Witness ==
    /\ last.op = "frame" /\ idAtReset > 0
    /\ retired = 2 /\ store.score = 20
    /\ nextId >= idAtReset + 2

====
